---- MODULE Spec2Model ----
(***************************************************************************)
(* A model of the hierarchical VAE of model.py and of the causal           *)
(* convolutions of neural_ar_operations.py.                                *)
(*                                                                         *)
(* The orchestrator (AutoEncoder.forward / AutoEncoder.sample) is modelled *)
(* as a state machine over the module lists built by the constructor.      *)
(* Tensors are not computed there: every evaluation of a module appends an *)
(* event to `log`, and a tensor is named by the index of the event that    *)
(* produced it, so that the log records which module was applied to which  *)
(* values, in which order.                                                 *)
(*                                                                         *)
(* The flow cells and convolutions are modelled numerically (integer       *)
(* tensors, channel-major) under the second specification SpecAR.          *)
(*                                                                         *)
(* Every module is taken as constructed: name resolution of the Python     *)
(* sources is not part of the model.                                       *)
(***************************************************************************)
EXTENDS Integers, Sequences, FiniteSets, TLC

\* ---------------------------------------------------------------- bounds
MaxScales == 2
MaxGroups == 2
MaxFlows == 1
MaxCellsPerCond == 1
MaxPreBlocks == 1
MaxLen == 3
MaxK == 3
MaxDil == 2
MaxSeed == 2
MaxCalls == 2
MaxChannels == 6

\* ------------------------------------------------------ program constants
CHANNEL_MULT == 2
ex == 6
kernel_size_z == 3
kernel_size_dw == 5
num_power_iter == 4
num_mix_output == 10
Temps == {0, 1}
Inputs == {1, 2}
NoTemp == 0 - 1     \* a distribution built without a temperature argument

VARIABLES
    cfg,                \* the constructor's arguments
    groups_per_scale,   \* self.groups_per_scale
    pre_process, enc_tower, enc_sampler, dec_sampler, nf_cells, dec_tower,
    post_process,       \* the module lists built by the constructor
    pc,                 \* position of the running pass
    mode,               \* "none", "forward" or "sample"
    log,                \* the evaluations of the running pass, in order
    i,                  \* position of the running tower loop (1-based)
    s,                  \* the feature stream
    combiner_cells_enc, combiner_cells_s,
    encounter,          \* history: the pairs as recorded, in encounter order
    idx_dec, nf_offset, z, ftr, t,
    all_q, all_p, all_log_q, all_log_p, kl_all,
    out,                \* what the pass returned (args: history, the
                        \* arguments its loss was computed under)
    all_conv_layers,    \* the weight-matrix shape of every registered layer
    sr_u, sr_v,         \* the singular vectors kept per shape
    sn_calls,           \* history: the calls of spectral_norm_parallel so far
    num_iter,           \* history: the iterations its last call ran per shape
    ar                  \* a call of a convolution or flow cell, and its result

modules == <<cfg, groups_per_scale, pre_process, enc_tower, enc_sampler,
             dec_sampler, nf_cells, dec_tower, post_process, all_conv_layers>>
built == <<modules, ar>>
cache == <<combiner_cells_enc, combiner_cells_s, encounter>>
dists == <<all_q, all_p, all_log_q, all_log_p>>
sr == <<sr_u, sr_v, sn_calls, num_iter>>
vars == <<built, sr, pc, mode, log, i, s, cache, idx_dec, nf_offset, z, ftr, t,
          dists, kl_all, out>>

\* ----------------------------------------------------------- sequences
Rep(n, e) == [k \in 1..n |-> e]

ReverseMutant(seq) == seq

Reverse(seq) == [k \in 1..Len(seq) |-> seq[Len(seq) + 1 - k]]

RECURSIVE SumSeq(_)
SumSeq(seq) == IF seq = <<>> THEN 0 ELSE Head(seq) + SumSeq(Tail(seq))

RECURSIVE Pow(_, _)
Pow(b, e) == IF e = 0 THEN 1 ELSE b * Pow(b, e - 1)

Max(a, b) == IF a >= b THEN a ELSE b

\* ------------------------------------------------------- construction
\* utils.groups_per_scale: n groups at the first scale, divided by the
\* divider (not below the minimum) at each further scale when adaptive.
RECURSIVE GroupsPerScale(_, _, _, _)
GroupsPerScale(num_scales, n, is_adaptive, minimum_groups) ==
    IF num_scales = 0 THEN <<>>
    ELSE <<n>> \o GroupsPerScale(num_scales - 1,
                     IF is_adaptive THEN Max(minimum_groups, n \div 2) ELSE n,
                     is_adaptive, minimum_groups)

\* __init__, lines 154-156: the down-samplings behind the size of prior_ftr0
prior_ftr0_scale(c) == c.num_preprocess_blocks + c.num_latent_scales - 1

vanilla_vae(c) == c.num_latent_scales = 1 /\ c.num_groups_per_scale = 1

with_nfMutant(c) == c.num_nf > 1

with_nf(c) == c.num_nf > 0

Cell(cell_type, mult) == [cell_type |-> cell_type, mult |-> mult]

\* init_pre_process: per block, normal_pre cells and a closing down_pre cell.
RECURSIVE PreBlocks(_, _, _)
PreBlocks(c, b, mult) ==
    IF b = c.num_preprocess_blocks THEN <<>>
    ELSE (IF c.num_preprocess_cells = 0 THEN <<>>
          ELSE Rep(c.num_preprocess_cells - 1, Cell("normal_pre", mult))
               \o <<Cell("down_pre", mult)>>)
         \o PreBlocks(c, b + 1, IF c.num_preprocess_cells = 0 THEN mult ELSE CHANNEL_MULT * mult)

init_pre_process(c) == PreBlocks(c, 0, 1)

PreMult(c) == IF c.num_preprocess_cells = 0 THEN 1 ELSE Pow(CHANNEL_MULT, c.num_preprocess_blocks)

IsLastEncGroupMutant(c, gps, sc, g) == FALSE

\* init_encoder_tower: scale s (0-based), group g (0-based).
IsLastEncGroup(c, gps, sc, g) == sc = c.num_latent_scales - 1 /\ g = gps[sc + 1] - 1

EncGroup(c, gps, sc, g, mult) ==
    Rep(c.num_cell_per_cond_enc, Cell("normal_enc", mult))
    \o (IF ~IsLastEncGroup(c, gps, sc, g) THEN <<Cell("combiner_enc", mult)>> ELSE <<>>)

RECURSIVE EncGroups(_, _, _, _, _)
EncGroups(c, gps, sc, g, mult) ==
    IF g >= gps[sc + 1] THEN <<>>
    ELSE EncGroup(c, gps, sc, g, mult) \o EncGroups(c, gps, sc, g + 1, mult)

RECURSIVE EncScales(_, _, _, _)
EncScales(c, gps, sc, mult) ==
    IF sc >= c.num_latent_scales THEN <<>>
    ELSE EncGroups(c, gps, sc, 0, mult)
         \o (IF sc < c.num_latent_scales - 1 THEN <<Cell("down_enc", mult)>> ELSE <<>>)
         \o EncScales(c, gps, sc + 1,
                      IF sc < c.num_latent_scales - 1 THEN CHANNEL_MULT * mult ELSE mult)

init_encoder_tower(c, gps, mult) == EncScales(c, gps, 0, mult)

\* the multiplier the encoder tower returns
EncMult(c, mult) ==
    IF vanilla_vae(c) THEN mult ELSE mult * Pow(CHANNEL_MULT, c.num_latent_scales - 1)

\* init_normal_sampler: scale sc walks the groups of encoder scale S-1-sc.
IsFirstGroup(sc, g) == sc = 0 /\ g = 0

RECURSIVE SamplerGroups(_, _, _, _, _, _)
SamplerGroups(c, gps, sc, g, mult, acc) ==
    IF g >= gps[c.num_latent_scales - sc] THEN acc
    ELSE SamplerGroups(c, gps, sc, g + 1, mult,
            [enc |-> Append(acc.enc, Cell("enc_sampler", mult)),
             nf  |-> acc.nf \o Rep(c.num_nf, Cell("ar_nn", mult)),
             dec |-> IF ~IsFirstGroup(sc, g)
                     THEN Append(acc.dec, Cell("dec_sampler", mult)) ELSE acc.dec])

RECURSIVE SamplerScales(_, _, _, _, _)
SamplerScales(c, gps, sc, mult, acc) ==
    IF sc >= c.num_latent_scales THEN acc
    ELSE SamplerScales(c, gps, sc + 1, mult \div CHANNEL_MULT,
                       SamplerGroups(c, gps, sc, 0, mult, acc))

init_normal_sampler(c, gps, mult) ==
    SamplerScales(c, gps, 0, mult, [enc |-> <<>>, nf |-> <<>>, dec |-> <<>>])

\* init_decoder_tower
DecGroup(c, sc, g, mult) ==
    (IF ~IsFirstGroup(sc, g)
     THEN Rep(c.num_cell_per_cond_dec, Cell("normal_dec", mult)) ELSE <<>>)
    \o <<Cell("combiner_dec", mult)>>

RECURSIVE DecGroups(_, _, _, _, _)
DecGroups(c, gps, sc, g, mult) ==
    IF g >= gps[c.num_latent_scales - sc] THEN <<>>
    ELSE DecGroup(c, sc, g, mult) \o DecGroups(c, gps, sc, g + 1, mult)

RECURSIVE DecScales(_, _, _, _)
DecScales(c, gps, sc, mult) ==
    IF sc >= c.num_latent_scales THEN <<>>
    ELSE DecGroups(c, gps, sc, 0, mult)
         \o (IF sc < c.num_latent_scales - 1 THEN <<Cell("up_dec", mult)>> ELSE <<>>)
         \o DecScales(c, gps, sc + 1,
                      IF sc < c.num_latent_scales - 1 THEN mult \div CHANNEL_MULT ELSE mult)

init_decoder_tower(c, gps, mult) == DecScales(c, gps, 0, mult)

\* the multiplier the decoder tower returns
DecMult(c, mult) ==
    IF vanilla_vae(c) THEN mult ELSE mult \div Pow(CHANNEL_MULT, c.num_latent_scales - 1)

\* init_post_process: per block, an up_post cell and normal_post cells.
RECURSIVE PostBlocks(_, _, _)
PostBlocks(c, b, mult) ==
    IF b = c.num_postprocess_blocks THEN <<>>
    ELSE (IF c.num_postprocess_cells = 0 THEN <<>>
          ELSE <<Cell("up_post", mult)>>
               \o Rep(c.num_postprocess_cells - 1, Cell("normal_post", mult \div CHANNEL_MULT)))
         \o PostBlocks(c, b + 1,
                       IF c.num_postprocess_cells = 0 THEN mult ELSE mult \div CHANNEL_MULT)

init_post_process(c, mult) == PostBlocks(c, 0, mult)

\* the multiplier init_post_process returns
DecMultPost(c, mult) ==
    IF c.num_postprocess_cells = 0 THEN mult
    ELSE mult \div Pow(CHANNEL_MULT, c.num_postprocess_blocks)


\* ------------------------------------------- tensors and convolutions
\* A tensor is a sequence of channels, each a sequence of integers over the
\* positions (one batch element).  A layer's `weight` is its realized
\* (normalized) kernel weight[o][c][j]; `bias` is <<>> for a layer built
\* without one, which then adds none.
Length(x) == Len(x[1])

\* the tensor x with every entry computed
Tensor(x) == SubSeq([c \in 1..Len(x) |-> SubSeq(x[c], 1, Len(x[c]))], 1, Len(x))

Zeros(x) == Tensor([c \in 1..Len(x) |-> [p \in 1..Length(x) |-> 0]])

TSub(x, y) == Tensor([c \in 1..Len(x) |-> [p \in 1..Length(x) |-> x[c][p] - y[c][p]]])

TAdd(x, y) == Tensor([c \in 1..Len(x) |-> [p \in 1..Length(x) |-> x[c][p] + y[c][p]]])

\* F.elu / nn.ELU, rounded to the integers: x for x > 0, exp(x) - 1 otherwise
ELU(x) ==
    Tensor([c \in 1..Len(x) |-> [p \in 1..Length(x) |->
        IF x[c][p] > 0 THEN x[c][p] ELSE IF x[c][p] = 0 THEN 0 ELSE 0 - 1]])

\* input row `row` at 0-based position u of the zero-padded input
Padded(row, u) == IF u >= 0 /\ u < Len(row) THEN row[u + 1] ELSE 0

\* F.conv1d, stride 1: zero padding on both sides, cross-correlation
conv1d(x, weight, bias, padding, dilation, groups) ==
    LET K      == Len(weight[1][1])
        cpg_in == Len(x) \div groups
        cpg_out == Len(weight) \div groups
        Lout   == Length(x) + 2 * padding - dilation * (K - 1)
        tap(o, c, j, p) ==
            weight[o][c][j]
            * Padded(x[((o - 1) \div cpg_out) * cpg_in + c], (p - 1) + (j - 1) * dilation - padding)
    IN  Tensor([o \in 1..Len(weight) |-> [p \in 1..Lout |->
            (IF bias = <<>> THEN 0 ELSE bias[o])
            + SumSeq([c \in 1..cpg_in |-> SumSeq([j \in 1..K |-> tap(o, c, j, p)])])]])

ARConv1d_paddingMutant(kernel_size, dilation, causal, conv_mode) ==
    IF conv_mode = "SAME" THEN (dilation * (kernel_size - 1)) \div 2 ELSE 0

\* ARConv1d.__init__: the padding the layer keeps
ARConv1d_padding(kernel_size, dilation, causal, conv_mode) ==
    IF causal /\ conv_mode = "SAME" THEN dilation * (kernel_size - 1)
    ELSE IF conv_mode = "SAME" THEN (dilation * (kernel_size - 1)) \div 2
    ELSE 0

ARConv1d(weight, bias, dilation, groups, causal, conv_mode) ==
    [weight |-> weight, bias |-> bias, dilation |-> dilation, groups |-> groups,
     causal |-> causal,
     padding |-> ARConv1d_padding(Len(weight[1][1]), dilation, causal, conv_mode)]

CropMutant(y, n) == SubSeq([o \in 1..Len(y) |-> SubSeq(y[o], n + 1, Length(y))], 1, Len(y))

\* out[:, :, :-n]
Crop(y, n) == SubSeq([o \in 1..Len(y) |-> SubSeq(y[o], 1, Length(y) - n)], 1, Len(y))

ARConv1d_forward(l, x) ==
    LET y == conv1d(x, l.weight, l.bias, l.padding, l.dilation, l.groups)
    IN  IF l.causal /\ l.padding # 0 THEN Crop(y, l.padding) ELSE y

ApplyLayer(layer, x) == IF layer.kind = "elu" THEN ELU(x) ELSE ARConv1d_forward(layer.conv, x)

\* thirdparty.checkpoint.checkpoint(func, inputs, params, flag): the forward
\* value is func(*inputs); the activations are recomputed on the backward pass
checkpoint(layer, x) == ApplyLayer(layer, x)

\* ELUConv.forward: the convolution of the ELU of x, recomputed on the
\* backward pass or not
ELUConv_forward(m, x) ==
    IF m.checkpoint_res
    THEN checkpoint([kind |-> "conv", conv |-> m.conv_0], ELU(x))
    ELSE ARConv1d_forward(m.conv_0, ELU(x))

\* what a call that raised leaves: no tensor
RuntimeError == <<>>

\* F.conv1d accepts x only with groups * weight.size(1) channels
Fits(layer, x) ==
    layer.kind = "conv" => Len(x) = layer.conv.groups * Len(layer.conv.weight[1])

RECURSIVE Sequential(_, _)
Sequential(layers, x) ==
    IF layers = <<>> THEN x ELSE Sequential(Tail(layers), ApplyLayer(Head(layers), x))

\* ARInvertedResidual.forward(z, ftr)
ARInvertedResidual_forward(m, zz, f) ==
    IF m.checkpoint_res
    THEN IF \A n \in 1..Len(m.layers) : Fits(m.layers[n], zz)
         THEN checkpoint(m.layers[Len(m.layers)], zz)
         ELSE RuntimeError
    ELSE Sequential(m.layers, zz)

\* CellAR.forward(z, ftr), use_mix_log_cdf = False
CellAR_forward(cell, zz, f) ==
    LET h  == ARInvertedResidual_forward(cell.conv, zz, f)
        mu == ELUConv_forward(cell.mu, h)
        new_z == TSub(zz, mu)
    IN  [new_z |-> new_z, log_det |-> Zeros(new_z)]

PairedCellAR_forwardMutant(pair, zz, f) ==
    LET r1 == CellAR_forward(pair.cell1, zz, f)
        r2 == CellAR_forward(pair.cell2, zz, f)
    IN  [new_z |-> r2.new_z, log_det |-> TAdd(r1.log_det, r2.log_det)]

\* PairedCellAR.forward(z, ftr)
PairedCellAR_forward(pair, zz, f) ==
    LET r1 == CellAR_forward(pair.cell1, zz, f)
        r2 == CellAR_forward(pair.cell2, r1.new_z, f)
    IN  [new_z |-> r2.new_z, log_det |-> TAdd(r1.log_det, r2.log_det)]

\* np.ones([rows, cols])
Ones(rows, cols) == Tensor([o \in 1..rows |-> [c \in 1..cols |-> 1]])

ZeroedMutant(mask, r0, r1, c0, c1) ==
    Tensor([o \in 1..Len(mask) |-> [c \in 1..Len(mask[o]) |->
        IF o - 1 >= r0 /\ o - 1 < r1 /\ c - 1 >= c0 + 1 /\ c - 1 < c1
        THEN 0 ELSE mask[o][c]]])

\* mask[r0:r1, c0:c1] = 0 (0-based, clipped to the array)
Zeroed(mask, r0, r1, c0, c1) ==
    Tensor([o \in 1..Len(mask) |-> [c \in 1..Len(mask[o]) |->
        IF o - 1 >= r0 /\ o - 1 < r1 /\ c - 1 >= c0 /\ c - 1 < c1
        THEN 0 ELSE mask[o][c]]])

\* channel_mask, lines 42-45: the loop of the branch c_out >= c_in
RECURSIVE channel_mask_rows(_, _, _, _, _)
channel_mask_rows(mask, n, c_in, ratio, zero_diag) ==
    IF n >= c_in THEN mask
    ELSE LET m1 == Zeroed(mask, n * ratio, (n + 1) * ratio, n + 1, c_in)
             m2 == IF zero_diag THEN Zeroed(m1, n * ratio, (n + 1) * ratio, n, n + 1) ELSE m1
         IN  channel_mask_rows(m2, n + 1, c_in, ratio, zero_diag)

\* channel_mask, lines 48-51: the loop of the branch c_out < c_in
RECURSIVE channel_mask_cols(_, _, _, _, _, _)
channel_mask_cols(mask, n, c_in, c_out, ratio, zero_diag) ==
    IF n >= c_out THEN mask
    ELSE LET m1 == Zeroed(mask, n, n + 1, (n + 1) * ratio, c_in)
             m2 == IF zero_diag THEN Zeroed(m1, n, n + 1, n * ratio, (n + 1) * ratio) ELSE m1
         IN  channel_mask_cols(m2, n + 1, c_in, c_out, ratio, zero_diag)

\* channel_mask(c_in, g_in, c_out, zero_diag): the mask, or a failed assertion
channel_mask(c_in, g_in, c_out, zero_diag) ==
    IF ~(c_in % c_out = 0 \/ c_out % c_in = 0) \/ ~(g_in = 1 \/ g_in = c_in)
    THEN [raised |-> TRUE, mask |-> <<>>]
    ELSE IF g_in = 1
    THEN [raised |-> FALSE,
          mask |-> IF c_out >= c_in
                   THEN channel_mask_rows(Ones(c_out, c_in), 0, c_in, c_out \div c_in, zero_diag)
                   ELSE channel_mask_cols(Ones(c_out, c_in), 0, c_in, c_out,
                                          c_in \div c_out, zero_diag)]
    ELSE [raised |-> FALSE,
          mask |-> IF zero_diag THEN Zeros(Ones(c_out, c_in \div g_in))
                   ELSE Ones(c_out, c_in \div g_in)]

\* the constructor (AutoEncoder.__init__), from its arguments
AllConfigs ==
    [num_latent_scales : 1..MaxScales,
     num_groups_per_scale : 1..MaxGroups,
     ada_groups : BOOLEAN,
     min_groups_per_scale : {1},
     num_nf : 0..MaxFlows,
     num_cell_per_cond_enc : 1..MaxCellsPerCond,
     num_cell_per_cond_dec : 1..MaxCellsPerCond,
     num_preprocess_blocks : 0..MaxPreBlocks,
     num_preprocess_cells : {2},
     num_postprocess_blocks : 0..MaxPreBlocks,
     num_postprocess_cells : {2},
     res_dist : BOOLEAN]

\* the shape of weight.view(weight.size(0), -1) of the layers of one module,
\* for one encoder/decoder channel and one latent per group: the samplers,
\* enc0, the stem, the output head and the flow cells as built in model.py,
\* and one layer of its channel count for a tower cell
ConvShapes(cell) ==
    CASE cell.cell_type = "stem" -> <<<<1, 3>>>>
      [] cell.cell_type = "enc0" -> <<<<cell.mult, cell.mult>>>>
      [] cell.cell_type = "enc_sampler" -> <<<<2, 3 * cell.mult>>>>
      [] cell.cell_type = "dec_sampler" -> <<<<2, cell.mult>>>>
      [] cell.cell_type = "image_conditional" -> <<<<3 * num_mix_output, 3 * cell.mult>>>>
      [] cell.cell_type = "ar_nn" ->
            LET one == <<<<ex, kernel_size_z>>, <<ex, kernel_size_dw>>, <<1, ex>>>>
            IN  one \o one
      [] OTHER -> <<<<cell.mult, cell.mult>>>>

RECURSIVE LayersOf(_)
LayersOf(cells) ==
    IF cells = <<>> THEN <<>> ELSE ConvShapes(Head(cells)) \o LayersOf(Tail(cells))

\* self.named_modules(), in the order the attributes are assigned
named_modules(c, m, m1, m2) ==
    <<Cell("stem", 1)>> \o m.pre_process \o m.enc_tower \o <<Cell("enc0", m1)>>
    \o m.enc_sampler \o m.dec_sampler \o m.nf_cells \o m.dec_tower
    \o m.post_process \o <<Cell("image_conditional", m2)>>

Construct(c) ==
    LET gps  == GroupsPerScale(c.num_latent_scales, c.num_groups_per_scale,
                               c.ada_groups, c.min_groups_per_scale)
        m0   == PreMult(c)
        m1   == EncMult(c, m0)
        smp  == init_normal_sampler(c, gps, m1)
        m2   == DecMult(c, m1)
        m    == [groups_per_scale |-> gps,
                 pre_process  |-> init_pre_process(c),
                 enc_tower    |-> IF vanilla_vae(c) THEN <<>> ELSE init_encoder_tower(c, gps, m0),
                 enc_sampler  |-> smp.enc,
                 dec_sampler  |-> smp.dec,
                 nf_cells     |-> smp.nf,
                 dec_tower    |-> IF vanilla_vae(c) THEN <<>> ELSE init_decoder_tower(c, gps, m1),
                 post_process |-> init_post_process(c, m2)]
    IN  [groups_per_scale |-> m.groups_per_scale,
         pre_process  |-> m.pre_process,
         enc_tower    |-> m.enc_tower,
         enc_sampler  |-> m.enc_sampler,
         dec_sampler  |-> m.dec_sampler,
         nf_cells     |-> m.nf_cells,
         dec_tower    |-> m.dec_tower,
         post_process |-> m.post_process,
         all_conv_layers |-> LayersOf(named_modules(c, m, m1, DecMultPost(c, m2)))]

\* the configurations explored: as many post- as pre-processing blocks, as
\* many cells per group in the decoder as in the encoder, and ada_groups set
\* only where it changes groups_per_scale
Configs ==
    {c \in AllConfigs :
        /\ c.num_postprocess_blocks = c.num_preprocess_blocks
        /\ c.num_cell_per_cond_dec = c.num_cell_per_cond_enc
        /\ c.ada_groups => (c.num_latent_scales > 1 /\ c.num_groups_per_scale > 1)}

\* ------------------------------------------------------------- events
\* One evaluation: module `op`, entry `mod` of its list (0-based), applied to
\* the values a and b (event indices, 0 for none), while idx_dec was k.
E(op, mod, a, b, k) ==
    [op |-> op, mod |-> mod, a |-> a, b |-> b, k |-> k, temp |-> NoTemp, sample |-> FALSE]

ET(op, mod, a, b, k, temp) == [E(op, mod, a, b, k) EXCEPT !.temp = temp]

ES(op, mod, a, b, k, smp) == [E(op, mod, a, b, k) EXCEPT !.sample = smp]

\* for cell in cells: s = cell(s)
RECURSIVE ApplyCells(_, _, _, _, _, _, _)
ApplyCells(lg, sid, n, j, op, k, smp) ==
    IF j > n THEN lg
    ELSE ApplyCells(Append(lg, ES(op, j - 1, sid, 0, k, smp)), Len(lg) + 1, n, j + 1, op, k, smp)

StreamAfter(lg0, sid, lg1) == IF Len(lg1) = Len(lg0) THEN sid ELSE Len(lg1)

DecoderStartMutant(enc_s, prior) == enc_s

\* forward, lines 401 and 410: the encoder stream is dropped and the decoder
\* stream starts from prior_ftr0
DecoderStart(enc_s, prior) == prior

IsCombinerEncMutant(cell) == FALSE

IsCombinerEnc(cell) == cell.cell_type = "combiner_enc"

IsCombinerDec(cell) == cell.cell_type = "combiner_dec"

HasPriorFeatureMutant(idx) == idx > 1

HasPriorFeature(idx) == idx > 0

DecSamplerIndexMutant(idx) == idx

DecSamplerIndex(idx) == idx - 1

CombinerIndexMutant(idx) == idx

CombinerIndex(idx) == idx - 1

EncSamplerIndex(idx) == idx

NextNfOffsetMutant(off, F) == off

NextNfOffset(off, F) == off + F

NfIndex(off, n) == off + n

\* for n in range(num_flows): z, log_det = nf_cells[off + n](z, ftr); log_q_conv -= log_det
RECURSIVE ApplyFlows(_, _, _, _, _, _, _, _)
ApplyFlows(lg, zid, lq, ftrid, off, n, F, k) ==
    IF n >= F THEN [log |-> lg, z |-> zid, log_q |-> lq]
    ELSE LET lg1 == Append(lg, E("nf_cell", NfIndex(off, n), zid, ftrid, k))
             lg2 == Append(lg1, E("isub", 0, lq, Len(lg1), k))
         IN  ApplyFlows(lg2, Len(lg1), Len(lg2), ftrid, off, n + 1, F, k)

\* z, _ = dist.sample(); log_q_conv = dist.log_p(z); then the flows
SamplePosterior(lg, distid, ftrid, off, F, k) ==
    LET lg1 == Append(lg, E("sample", 0, distid, 0, k))
        lg2 == Append(lg1, E("log_p", 0, distid, Len(lg1), k))
    IN  ApplyFlows(lg2, Len(lg1), Len(lg2), ftrid, off, 0, F, k)

FlowsInRange(off, F, cells) == \A n \in 0..(F - 1) : NfIndex(off, n) < Len(cells)

\* ------------------------------------------------------------- passes
Idle ==
    /\ pc = "idle" /\ mode = "none" /\ log = <<>> /\ i = 0 /\ s = 0
    /\ combiner_cells_enc = <<>> /\ combiner_cells_s = <<>> /\ encounter = <<>>
    /\ idx_dec = 0 /\ nf_offset = 0 /\ z = 0 /\ ftr = 0 /\ t = NoTemp
    /\ all_q = <<>> /\ all_p = <<>> /\ all_log_q = <<>> /\ all_log_p = <<>>
    /\ kl_all = <<>> /\ out = [kind |-> "none"]
    /\ sr_u = <<>> /\ sr_v = <<>> /\ sn_calls = 0 /\ num_iter = <<>>

Built(c) ==
    /\ cfg = c
    /\ LET m == Construct(c)
       IN  /\ groups_per_scale = m.groups_per_scale
           /\ pre_process = m.pre_process
           /\ enc_tower = m.enc_tower
           /\ enc_sampler = m.enc_sampler
           /\ dec_sampler = m.dec_sampler
           /\ nf_cells = m.nf_cells
           /\ dec_tower = m.dec_tower
           /\ post_process = m.post_process
           /\ all_conv_layers = m.all_conv_layers

Init ==
    /\ \E c \in Configs : Built(c)
    /\ Idle
    /\ ar = [kind |-> "none"]

Returned == pc \in {"idle", "done", "IndexError", "AssertionError"}

ResetLocals ==
    /\ combiner_cells_enc' = <<>> /\ combiner_cells_s' = <<>> /\ encounter' = <<>>
    /\ idx_dec' = 0 /\ nf_offset' = 0 /\ ftr' = 0
    /\ all_q' = <<>> /\ all_p' = <<>> /\ all_log_q' = <<>> /\ all_log_p' = <<>>
    /\ kl_all' = <<>> /\ out' = [kind |-> "none"]

\* forward, lines 355-371: preprocess, stem, the pre-processing cells
ForwardStart(x) ==
    /\ Returned /\ sn_calls < MaxCalls
    /\ LET lg0 == <<E("x", x, 0, 0, 0), E("preprocess", 0, 1, 0, 0), E("stem", 0, 2, 0, 0)>>
           lg1 == ApplyCells(lg0, 3, Len(pre_process), 1, "pre_process", 0, FALSE)
       IN  /\ log' = lg1
           /\ s' = StreamAfter(lg0, 3, lg1)
    /\ pc' = "enc_tower" /\ mode' = "forward" /\ i' = 1 /\ t' = NoTemp /\ z' = 0
    /\ ResetLocals
    /\ UNCHANGED <<built, sr>>

\* forward, lines 372-377: one cell of the encoder tower
EncTowerStep ==
    /\ pc = "enc_tower" /\ i <= Len(enc_tower)
    /\ IF IsCombinerEnc(enc_tower[i])
       THEN /\ combiner_cells_enc' = Append(combiner_cells_enc, i - 1)
            /\ combiner_cells_s' = Append(combiner_cells_s, s)
            /\ encounter' = Append(encounter, [cell |-> i - 1, s |-> s])
            /\ UNCHANGED <<log, s>>
       ELSE /\ log' = Append(log, E("enc_tower", i - 1, s, 0, 0))
            /\ s' = Len(log')
            /\ UNCHANGED cache
    /\ i' = i + 1
    /\ UNCHANGED <<built, sr, pc, mode, idx_dec, nf_offset, z, ftr, t, dists, kl_all, out>>

\* forward, lines 379-412: the reversal, the first posterior and its flows,
\* the standard prior, and the decoder stream's start
FirstGroup ==
    /\ pc = "enc_tower" /\ i > Len(enc_tower)
    /\ combiner_cells_enc' = Reverse(combiner_cells_enc)
    /\ combiner_cells_s' = Reverse(combiner_cells_s)
    /\ IF EncSamplerIndex(0) < Len(enc_sampler) /\ FlowsInRange(0, cfg.num_nf, nf_cells)
       THEN LET lg1 == Append(log, E("enc0", 0, s, 0, 0))
                f   == Len(lg1)
                lg2 == Append(lg1, E("enc_sampler", EncSamplerIndex(0), f, 0, 0))
                lg3 == Append(lg2, E("Normal", 0, Len(lg2), 0, 0))
                q   == Len(lg3)
                r   == SamplePosterior(lg3, q, f, 0, cfg.num_nf, 0)
                lg4 == Append(r.log, E("NormalStd", 0, 0, 0, 0))
                p   == Len(lg4)
                lg5 == Append(lg4, E("log_p", 0, p, r.z, 0))
                lg6 == Append(lg5, E("prior_ftr0", 0, 0, 0, 0))
            IN  /\ log' = lg6
                /\ ftr' = f /\ z' = r.z
                /\ nf_offset' = NextNfOffset(0, cfg.num_nf)
                /\ all_q' = <<q>> /\ all_log_q' = <<r.log_q>>
                /\ all_p' = <<p>> /\ all_log_p' = <<Len(lg5)>>
                /\ s' = DecoderStart(s, Len(lg6))
                /\ idx_dec' = 0 /\ i' = 1 /\ pc' = "dec_tower"
       ELSE /\ pc' = "IndexError"
            /\ UNCHANGED <<log, ftr, z, nf_offset, dists, s, idx_dec, i>>
    /\ UNCHANGED <<built, sr, mode, encounter, t, kl_all, out>>

\* forward, lines 415-439: prior and posterior of a later group, its sample
\* and flows, in the order of the code
LaterGroup(lg, sid, idx, off, c, ccs_enc, ccs_s) ==
    LET lg1 == Append(lg, E("dec_sampler", DecSamplerIndex(idx), sid, 0, idx))
        pp  == Len(lg1)
        lg2 == Append(lg1, E("combiner_enc", ccs_enc[CombinerIndex(idx) + 1],
                             ccs_s[CombinerIndex(idx) + 1], sid, idx))
        f   == Len(lg2)
        lg3 == Append(lg2, E("enc_sampler", EncSamplerIndex(idx), f, 0, idx))
        qp  == Len(lg3)
        lg4 == Append(lg3, IF c.res_dist THEN E("Normal", 0, pp, qp, idx)
                                         ELSE E("Normal", 0, qp, 0, idx))
        q   == Len(lg4)
        r   == SamplePosterior(lg4, q, f, off, c.num_nf, idx)
        lg5 == Append(r.log, E("Normal", 0, pp, 0, idx))
        p   == Len(lg5)
        lg6 == Append(lg5, E("log_p", 0, p, r.z, idx))
    IN  [log |-> lg6, ftr |-> f, z |-> r.z, q |-> q, log_q |-> r.log_q,
         p |-> p, log_p |-> Len(lg6)]

LaterGroupInRange(idx) ==
    /\ DecSamplerIndex(idx) >= 0 /\ DecSamplerIndex(idx) < Len(dec_sampler)
    /\ CombinerIndex(idx) >= 0 /\ CombinerIndex(idx) < Len(combiner_cells_enc)
    /\ CombinerIndex(idx) < Len(combiner_cells_s)
    /\ EncSamplerIndex(idx) < Len(enc_sampler)
    /\ FlowsInRange(nf_offset, cfg.num_nf, nf_cells)

\* forward, lines 413-445: one cell of the decoder tower
DecTowerStep ==
    /\ pc = "dec_tower" /\ i <= Len(dec_tower)
    /\ IF IsCombinerDec(dec_tower[i])
       THEN IF HasPriorFeature(idx_dec)
            THEN IF LaterGroupInRange(idx_dec)
                 THEN LET r == LaterGroup(log, s, idx_dec, nf_offset, cfg,
                                          combiner_cells_enc, combiner_cells_s)
                      IN  /\ log' = Append(r.log, E("combiner_dec", i - 1, s, r.z, idx_dec))
                          /\ s' = Len(log')
                          /\ ftr' = r.ftr /\ z' = r.z
                          /\ nf_offset' = NextNfOffset(nf_offset, cfg.num_nf)
                          /\ all_q' = Append(all_q, r.q)
                          /\ all_log_q' = Append(all_log_q, r.log_q)
                          /\ all_p' = Append(all_p, r.p)
                          /\ all_log_p' = Append(all_log_p, r.log_p)
                          /\ idx_dec' = idx_dec + 1 /\ i' = i + 1
                          /\ UNCHANGED pc
                 ELSE /\ pc' = "IndexError"
                      /\ UNCHANGED <<log, s, ftr, z, nf_offset, dists, idx_dec, i>>
            ELSE /\ log' = Append(log, E("combiner_dec", i - 1, s, z, idx_dec))
                 /\ s' = Len(log')
                 /\ idx_dec' = idx_dec + 1 /\ i' = i + 1
                 /\ UNCHANGED <<pc, ftr, z, nf_offset, dists>>
       ELSE /\ log' = Append(log, E("dec_tower", i - 1, s, 0, idx_dec))
            /\ s' = Len(log')
            /\ i' = i + 1
            /\ UNCHANGED <<pc, ftr, z, nf_offset, dists, idx_dec>>
    /\ UNCHANGED <<built, sr, mode, cache, t, kl_all, out>>

Min(a, b) == IF a <= b THEN a ELSE b

\* forward, lines 462-471: one KL term per zipped (q, p, log_q, log_p)
RECURSIVE KlTerms(_, _, _, _, _, _, _, _)
KlTerms(lg, kls, g, n, c, qs, ps, lqps) ==
    IF g > n THEN [log |-> lg, kl_all |-> kls]
    ELSE LET e == IF with_nf(c)
                  THEN E("kl_diff", g - 1, lqps[1][g], lqps[2][g], n)
                  ELSE E("kl_closed", g - 1, qs[g], ps[g], n)
             lg1 == Append(lg, e)
         IN  KlTerms(lg1, Append(kls, Len(lg1)), g + 1, n, c, qs, ps, lqps)

ShapesOf(layers) == {layers[n] : n \in 1..Len(layers)}

NumIterMutant(first) == num_power_iter

\* spectral_norm_parallel, lines 591-597: the iterations run on a shape
NumIter(first) == IF first THEN 10 * num_power_iter ELSE num_power_iter

\* spectral_norm_parallel, lines 588-606.  A singular vector is named by the
\* call that drew it (init) and the power iterations it went through (iters).
spectral_norm_parallel(layers, u, v, call) ==
    LET shapes == ShapesOf(layers)
        first(sh) == sh \notin DOMAIN u
        drawn == [init |-> call, iters |-> 0]
        refine(w, sh) ==
            [(IF first(sh) THEN drawn ELSE w[sh]) EXCEPT !.iters = @ + NumIter(first(sh))]
    IN  [sr_u |-> [sh \in DOMAIN u \cup shapes |->
                     IF sh \in shapes THEN refine(u, sh) ELSE u[sh]],
         sr_v |-> [sh \in DOMAIN v \cup shapes |->
                     IF sh \in shapes THEN refine(v, sh) ELSE v[sh]],
         num_iter |-> [sh \in shapes |-> NumIter(first(sh))]]

\* the loss-schedule arguments of forward; kl_coeff is the value
\* utils.kl_coeff returns, at either end of its range.  Without annealing
\* neither kl_coeff nor weight_decay_norm_init is read.
WdnArgs ==
    [weight_decay_norm_anneal : {TRUE},
     weight_decay_norm_init : {0, 1},
     weight_decay_norm : {0, 1},
     kl_coeff : {0, 1}]
    \cup
    [weight_decay_norm_anneal : {FALSE},
     weight_decay_norm_init : {0},
     weight_decay_norm : {0, 1},
     kl_coeff : {0}]

WdnAssertMutant(args) == args.weight_decay_norm_init > 0

WdnAssert(args) == args.weight_decay_norm_init > 0 /\ args.weight_decay_norm > 0

\* lines 508-513: exp((1 - kl_coeff) * log(init) + kl_coeff * log(final)),
\* or weight_decay_norm as given
wdn_coeff(args) ==
    IF args.weight_decay_norm_anneal
    THEN Pow(args.weight_decay_norm_init, 1 - args.kl_coeff)
         * Pow(args.weight_decay_norm, args.kl_coeff)
    ELSE args.weight_decay_norm

\* forward, lines 447-530: the output head, the KL terms and the loss
ForwardFinish(args) ==
    /\ pc = "dec_tower" /\ i > Len(dec_tower)
    /\ LET lg1 == IF vanilla_vae(cfg)
                  THEN Append(log, E("stem_decoder", 0, z, 0, idx_dec)) ELSE log
           s1  == StreamAfter(log, s, lg1)
           lg2 == ApplyCells(lg1, s1, Len(post_process), 1, "post_process", idx_dec, FALSE)
           s2  == StreamAfter(lg1, s1, lg2)
           lg3 == Append(lg2, E("image_conditional", 0, s2, 0, idx_dec))
           n   == Min(Min(Len(all_q), Len(all_p)), Min(Len(all_log_q), Len(all_log_p)))
           k   == KlTerms(lg3, <<>>, 1, n, cfg, all_q, all_p, <<all_log_q, all_log_p>>)
           lg4 == Append(k.log, E("decoder_output", 0, Len(lg3), 0, idx_dec))
           o   == Len(lg4)
           lg5 == Append(lg4, E("reconstruction_loss", 0, o, 2, idx_dec))
           lg6 == Append(lg5, E("batchnorm_loss", 0, 0, 0, idx_dec))
           lg7 == Append(lg6, E("spectral_norm_parallel", 0, 0, 0, idx_dec))
           sn  == spectral_norm_parallel(all_conv_layers, sr_u, sr_v, sn_calls + 1)
       IN  /\ s' = s2
           /\ kl_all' = k.kl_all
           /\ sr_u' = sn.sr_u /\ sr_v' = sn.sr_v /\ num_iter' = sn.num_iter
           /\ sn_calls' = sn_calls + 1
           /\ IF args.weight_decay_norm_anneal /\ ~WdnAssert(args)
              THEN /\ log' = lg7
                   /\ pc' = "AssertionError"
                   /\ out' = [kind |-> "none", args |-> args]
              ELSE /\ log' = Append(lg7, E("loss", 0, Len(lg5), Len(lg7), idx_dec))
                   /\ pc' = "done"
                   /\ out' = [kind |-> "forward", output |-> o, loss |-> Len(log'),
                              metrics |-> [wdn_coeff |-> wdn_coeff(args),
                                           kl_coeff |-> args.kl_coeff],
                              args |-> args]
    /\ UNCHANGED <<built, mode, i, cache, idx_dec, nf_offset, z, ftr, t, dists>>

\* the temperature sample() gives its distributions
SampleTempMutant(temp) == NoTemp

SampleTemp(temp) == temp

\* sample, lines 533-541: the first latent from the standard prior
SampleStart(temp) ==
    /\ Returned
    /\ LET lg1 == <<ET("NormalStd", 0, 0, 0, 0, SampleTemp(temp))>>
           lg2 == Append(lg1, E("sample", 0, 1, 0, 0))
           lg3 == Append(lg2, E("prior_ftr0", 0, 0, 0, 0))
       IN  /\ log' = lg3
           /\ z' = Len(lg2)
           /\ s' = Len(lg3)
    /\ ResetLocals
    /\ pc' = "sample_tower" /\ mode' = "sample" /\ i' = 1 /\ t' = temp
    /\ UNCHANGED <<built, sr>>

\* sample, lines 542-557: one cell of the decoder tower
SampleTowerStep ==
    /\ pc = "sample_tower" /\ i <= Len(dec_tower)
    /\ IF IsCombinerDec(dec_tower[i])
       THEN IF HasPriorFeature(idx_dec)
            THEN IF DecSamplerIndex(idx_dec) >= 0 /\ DecSamplerIndex(idx_dec) < Len(dec_sampler)
                 THEN LET lg1 == Append(log, E("dec_sampler", DecSamplerIndex(idx_dec), s, 0, idx_dec))
                          lg2 == Append(lg1, ET("Normal", 0, Len(lg1), 0, idx_dec, SampleTemp(t)))
                          lg3 == Append(lg2, E("sample", 0, Len(lg2), 0, idx_dec))
                      IN  /\ z' = Len(lg3)
                          /\ log' = Append(lg3, E("combiner_dec", i - 1, s, Len(lg3), idx_dec))
                          /\ s' = Len(log')
                          /\ idx_dec' = idx_dec + 1 /\ i' = i + 1
                          /\ UNCHANGED pc
                 ELSE /\ pc' = "IndexError"
                      /\ UNCHANGED <<log, s, z, idx_dec, i>>
            ELSE /\ log' = Append(log, E("combiner_dec", i - 1, s, z, idx_dec))
                 /\ s' = Len(log')
                 /\ idx_dec' = idx_dec + 1 /\ i' = i + 1
                 /\ UNCHANGED <<pc, z>>
       ELSE /\ log' = Append(log, ES("dec_tower", i - 1, s, 0, idx_dec, TRUE))
            /\ s' = Len(log')
            /\ i' = i + 1
            /\ UNCHANGED <<pc, z, idx_dec>>
    /\ UNCHANGED <<built, sr, mode, cache, nf_offset, ftr, t, dists, kl_all, out>>

\* sample, lines 559-567: the output head and the draw from the output
SampleFinish ==
    /\ pc = "sample_tower" /\ i > Len(dec_tower)
    /\ LET lg1 == IF vanilla_vae(cfg)
                  THEN Append(log, E("stem_decoder", 0, z, 0, idx_dec)) ELSE log
           s1  == StreamAfter(log, s, lg1)
           lg2 == ApplyCells(lg1, s1, Len(post_process), 1, "post_process", idx_dec, TRUE)
           s2  == StreamAfter(lg1, s1, lg2)
           lg3 == Append(lg2, E("image_conditional", 0, s2, 0, idx_dec))
           lg4 == Append(lg3, E("decoder_output", 0, Len(lg3), 0, idx_dec))
           lg5 == Append(lg4, E("output_sample", 0, Len(lg4), 0, idx_dec))
       IN  /\ log' = lg5
           /\ s' = s2
           /\ out' = [kind |-> "sample", output |-> Len(lg5)]
    /\ pc' = "done"
    /\ UNCHANGED <<built, sr, mode, i, cache, idx_dec, nf_offset, z, ftr, t, dists, kl_all>>

Next ==
    \/ \E x \in Inputs : ForwardStart(x)
    \/ EncTowerStep
    \/ FirstGroup
    \/ DecTowerStep
    \/ \E args \in WdnArgs : ForwardFinish(args)
    \/ \E temp \in Temps : SampleStart(temp)
    \/ SampleTowerStep
    \/ SampleFinish

Spec == Init /\ [][Next]_vars

\* ------------------------------------- calls of the convolutions and cells
Bits == {0, 1}
Signs == {0 - 1, 1}
Rows == [1..MaxLen -> Signs]
BitRows == UNION {[1..n -> Bits] : n \in 1..MaxLen}

\* a realized kernel and a bias, picked by a seed
Kernel(seed, c_out, c_in, K) ==
    [o \in 1..c_out |-> [c \in 1..c_in |-> [j \in 1..K |->
        ((seed + o * j + 2 * c + (seed + 1) * j * j) % 3) - 1]]]

Bias(seed, c_out) == [o \in 1..c_out |-> (seed + o) % 2]

\* ARInvertedResidual.__init__
ARInvertedResidual(inz, seed, checkpoint_res) ==
    LET hidden_dim == inz * ex
    IN  [hidden_dim |-> hidden_dim, checkpoint_res |-> checkpoint_res,
         layers |-> <<[kind |-> "conv",
                       conv |-> ARConv1d(Kernel(seed, hidden_dim, inz, kernel_size_z),
                                         <<>>, 1, 1, TRUE, "SAME")],
                      [kind |-> "elu"],
                      [kind |-> "conv",
                       conv |-> ARConv1d(Kernel(seed + 1, hidden_dim, 1, kernel_size_dw),
                                         <<>>, 1, hidden_dim, TRUE, "SAME")],
                      [kind |-> "elu"]>>]

\* ELUConv.__init__
ELUConv(weight, bias, dilation, causal, checkpoint_res) ==
    [checkpoint_res |-> checkpoint_res,
     conv_0 |-> ARConv1d(weight, bias, dilation, 1, causal, "SAME")]

\* CellAR.__init__ and PairedCellAR.__init__
CellAR(num_z, seed) ==
    LET conv == ARInvertedResidual(num_z, seed, FALSE)
    IN  [conv |-> conv,
         mu |-> ELUConv(Kernel(seed + 2, num_z, conv.hidden_dim, 1), Bias(seed, num_z),
                        1, TRUE, FALSE)]

PairedCellAR(num_z, seed1, seed2) == [cell1 |-> CellAR(num_z, seed1), cell2 |-> CellAR(num_z, seed2)]

Ftrs == {<<[p \in 1..MaxLen |-> v]>> : v \in Bits}

ConvCalls ==
    {[kind |-> "conv", done |-> FALSE, x |-> <<row>>, res |-> <<>>,
      layer |-> ARConv1d(<<<<w>>>>, b, d, 1, TRUE, "SAME")] :
        row \in BitRows, b \in {<<>>, <<1>>}, d \in 1..MaxDil,
        w \in UNION {[1..K -> Bits] : K \in 1..MaxK}}

CellCalls ==
    {[kind |-> "cell", done |-> FALSE, z |-> <<row>>, ftr |-> f, res |-> <<>>,
      cell |-> CellAR(1, sd)] : row \in Rows, f \in Ftrs, sd \in 0..MaxSeed}

PairedCalls ==
    {[kind |-> "paired", done |-> FALSE, z |-> <<row>>, ftr |-> f, res |-> <<>>,
      pair |-> PairedCellAR(1, sd1, sd1 + dd)] :
        row \in Rows, f \in Ftrs, sd1 \in 0..MaxSeed, dd \in {0, 1}}

ResCalls ==
    {[kind |-> "res", done |-> FALSE, z |-> <<row>>, ftr |-> f, res |-> <<>>,
      m |-> ARInvertedResidual(1, sd, cp)] :
        row \in Rows, f \in Ftrs, sd \in 0..MaxSeed, cp \in BOOLEAN}

EluCalls ==
    {[kind |-> "elu", done |-> FALSE, x |-> <<row>>, res |-> <<>>,
      m |-> ELUConv(Kernel(sd, 1, 1, MaxK), Bias(sd, 1), 1, TRUE, cp)] :
        row \in Rows, sd \in 0..MaxSeed, cp \in BOOLEAN}

MaskCalls ==
    {[kind |-> "mask", done |-> FALSE, c_in |-> c_in, g_in |-> g_in, c_out |-> c_out,
      zero_diag |-> zd, res |-> <<>>] :
        c_in \in 1..MaxChannels, g_in \in 1..MaxChannels, c_out \in 1..MaxChannels,
        zd \in BOOLEAN}

MinimalConfig ==
    CHOOSE c \in Configs :
        /\ vanilla_vae(c) /\ c.num_nf = 0 /\ c.num_preprocess_blocks = 0
        /\ ~c.ada_groups /\ ~c.res_dist

InitAR ==
    /\ Built(MinimalConfig)
    /\ Idle
    /\ ar \in ConvCalls \cup CellCalls \cup PairedCalls \cup ResCalls \cup EluCalls
             \cup MaskCalls

ConvForward ==
    /\ ar.kind = "conv" /\ ~ar.done
    /\ ar' = [ar EXCEPT !.done = TRUE, !.res = ARConv1d_forward(ar.layer, ar.x)]
    /\ UNCHANGED <<modules, sr, pc, mode, log, i, s, cache, idx_dec, nf_offset, z, ftr, t,
                   dists, kl_all, out>>

CellForward ==
    /\ ar.kind = "cell" /\ ~ar.done
    /\ ar' = [ar EXCEPT !.done = TRUE, !.res = CellAR_forward(ar.cell, ar.z, ar.ftr)]
    /\ UNCHANGED <<modules, sr, pc, mode, log, i, s, cache, idx_dec, nf_offset, z, ftr, t,
                   dists, kl_all, out>>

PairedForward ==
    /\ ar.kind = "paired" /\ ~ar.done
    /\ ar' = [ar EXCEPT !.done = TRUE, !.res = PairedCellAR_forward(ar.pair, ar.z, ar.ftr)]
    /\ UNCHANGED <<modules, sr, pc, mode, log, i, s, cache, idx_dec, nf_offset, z, ftr, t,
                   dists, kl_all, out>>

ResForward ==
    /\ ar.kind = "res" /\ ~ar.done
    /\ ar' = [ar EXCEPT !.done = TRUE, !.res = ARInvertedResidual_forward(ar.m, ar.z, ar.ftr)]
    /\ UNCHANGED <<modules, sr, pc, mode, log, i, s, cache, idx_dec, nf_offset, z, ftr, t,
                   dists, kl_all, out>>

EluForward ==
    /\ ar.kind = "elu" /\ ~ar.done
    /\ ar' = [ar EXCEPT !.done = TRUE, !.res = ELUConv_forward(ar.m, ar.x)]
    /\ UNCHANGED <<modules, sr, pc, mode, log, i, s, cache, idx_dec, nf_offset, z, ftr, t,
                   dists, kl_all, out>>

MaskCall ==
    /\ ar.kind = "mask" /\ ~ar.done
    /\ ar' = [ar EXCEPT !.done = TRUE,
                        !.res = channel_mask(ar.c_in, ar.g_in, ar.c_out, ar.zero_diag)]
    /\ UNCHANGED <<modules, sr, pc, mode, log, i, s, cache, idx_dec, nf_offset, z, ftr, t,
                   dists, kl_all, out>>

NextAR ==
    \/ ConvForward \/ CellForward \/ PairedForward \/ ResForward \/ EluForward
    \/ MaskCall

SpecAR == InitAR /\ [][NextAR]_vars

\* ------------------------------------------------- reading the log
EventsOf(op) == {e \in 1..Len(log) : log[e].op = op}

MinOf(S) == CHOOSE m \in S : \A n \in S : m <= n

MaxOf(S) == CHOOSE m \in S : \A n \in S : m >= n

PassEnded == pc \in {"done", "AssertionError"}

\* the events of S in the order of the log
RECURSIVE SortedSeq(_)
SortedSeq(S) == IF S = {} THEN <<>> ELSE <<MinOf(S)>> \o SortedSeq(S \ {MinOf(S)})

\* the stream that leaves the pre-processing cells
PreStream == 3 + Len(pre_process)

\* the encoder stream once the tower cells before position c (0-based) ran
EncStreamBefore(c) ==
    LET earlier == {e \in EventsOf("enc_tower") : log[e].mod < c}
    IN  IF earlier = {} THEN PreStream ELSE MaxOf(earlier)

\* the decoder stream as it stands just before event e
DecStreamBefore(e) ==
    MaxOf({f \in 1..(e - 1) : log[f].op \in {"prior_ftr0", "dec_tower", "combiner_dec"}})

\* ------------------------------------------------------------- claims

\* C1: the (cell, feature) pairs recorded at the combiner_enc positions of the
\* encoder traversal are consumed in reverse order: with N pairs recorded, the
\* decoder's k-th combiner_dec position (k = 1..N) evaluates the cell and the
\* feature of the pair recorded at encounter index N-k, and once the pass has
\* ended every pair has been evaluated exactly once.
C1_ReverseConsumption ==
    mode = "forward" =>
        LET N == Len(encounter)
        IN  /\ \A e \in EventsOf("combiner_dec") :
                  log[e].k = Cardinality({f \in EventsOf("combiner_dec") : f < e})
            /\ \A e \in EventsOf("combiner_enc") :
                  LET k == log[e].k
                  IN  /\ k \in 1..N
                      /\ log[e].mod = encounter[N - k + 1].cell
                      /\ log[e].a = encounter[N - k + 1].s
                      /\ \E d \in EventsOf("combiner_dec") : d > e /\ log[d].k = k
            /\ PassEnded =>
                  \A j \in 1..N :
                     Cardinality({e \in EventsOf("combiner_enc") :
                                     log[e].mod = encounter[j].cell}) = 1

C1_Witness ==
    /\ mode = "forward" /\ pc = "done" /\ Len(encounter) = 3
    /\ Cardinality(EventsOf("combiner_enc")) = 3

\* C2: in the encoder traversal a combiner_enc cell is never evaluated; the
\* pair cached at its position holds the stream left by the last non-combiner
\* cell before it, and the next non-combiner cell receives that same stream.
C2_CombinerDeferred ==
    mode = "forward" =>
        /\ \A e \in EventsOf("enc_tower") :
              /\ enc_tower[log[e].mod + 1].cell_type # "combiner_enc"
              /\ log[e].a = EncStreamBefore(log[e].mod)
        /\ \A j \in 1..Len(encounter) :
              LET c == encounter[j].cell
                  later == {e \in EventsOf("enc_tower") : log[e].mod > c}
              IN  /\ enc_tower[c + 1].cell_type = "combiner_enc"
                  /\ encounter[j].s = EncStreamBefore(c)
                  /\ later # {} => log[MinOf(later)].a = encounter[j].s
        /\ pc = "enc_tower" =>
              /\ s = EncStreamBefore(i - 1)
              /\ Len(encounter) =
                    Cardinality({c \in 1..(i - 1) : enc_tower[c].cell_type = "combiner_enc"})

C2_Witness ==
    /\ mode = "forward" /\ pc = "enc_tower" /\ encounter # <<>>
    /\ \E e \in EventsOf("enc_tower") :
          log[e].mod > encounter[1].cell /\ log[e].a = encounter[1].s

PosteriorParam(q, k) == IF cfg.res_dist /\ k >= 1 THEN log[q].b ELSE log[q].a

\* C4: the first group's posterior is enc_sampler[0] of the reduced encoder
\* output and its prior is the standard distribution; for a later group k the
\* prior parameters are dec_sampler[k-1] of the decoder stream as it stands
\* before the group's latent is injected, the posterior comes from the cached
\* encoder feature combined with that same stream, and the latent is injected
\* through combiner_dec only after both are formed.
C4_PriorPosteriorOrder ==
    (mode = "forward" /\ all_q # <<>>) =>
        /\ LET q0 == all_q[1]
               prm == log[q0].a
           IN  /\ log[q0].op = "Normal" /\ log[q0].b = 0
               /\ log[prm].op = "enc_sampler" /\ log[prm].mod = 0
               /\ log[log[prm].a].op = "enc0"
               /\ log[log[prm].a].a = EncStreamBefore(Len(enc_tower))
               /\ log[all_p[1]].op = "NormalStd"
        /\ \A e \in EventsOf("combiner_dec") :
              log[e].k >= 1 =>
                 LET k   == log[e].k
                     sb  == log[e].a
                     q   == all_q[k + 1]
                     p   == all_p[k + 1]
                     pp  == log[p].a
                     qp  == PosteriorParam(q, k)
                     f   == log[qp].a
                 IN  /\ sb = DecStreamBefore(e)
                     /\ log[p].op = "Normal" /\ log[p].b = 0
                     /\ log[pp].op = "dec_sampler" /\ log[pp].mod = k - 1
                     /\ log[pp].a = sb
                     /\ log[q].op = "Normal"
                     /\ IF cfg.res_dist THEN log[q].a = pp /\ log[q].b = qp
                                         ELSE log[q].a = qp /\ log[q].b = 0
                     /\ log[qp].op = "enc_sampler" /\ log[qp].mod = k
                     /\ log[f].op = "combiner_enc" /\ log[f].b = sb
                     /\ \E j \in 1..Len(encounter) :
                           log[f].mod = encounter[j].cell /\ log[f].a = encounter[j].s
                     /\ p < e /\ q < e
                     /\ \E sm \in EventsOf("sample") :
                           log[sm].a = q /\ sm <= log[e].b /\ log[e].b < e

C4_Witness ==
    /\ mode = "forward" /\ pc = "dec_tower" /\ Len(all_q) = 3 /\ cfg.res_dist
    /\ \E e \in EventsOf("combiner_dec") : log[e].k = 2

\* the flow events of group g, and the subtractions behind a log-density
FlowsOf(g) == {e \in EventsOf("nf_cell") : log[e].k = g}

RECURSIVE LogDets(_)
LogDets(id) == IF log[id].op = "isub" THEN Append(LogDets(log[id].a), log[id].b) ELSE <<>>

RECURSIVE LogQBase(_)
LogQBase(id) == IF log[id].op = "isub" THEN LogQBase(log[id].a) ELSE id

C8_KlTerms ==
    (mode = "forward" /\ PassEnded) =>
        /\ Len(kl_all) = SumSeq(groups_per_scale)
        /\ \A g \in 1..Len(kl_all) :
              LET e == log[kl_all[g]]
              IN  IF cfg.num_nf > 0
                  THEN /\ e.op = "kl_diff"
                       /\ e.a = all_log_q[g] /\ e.b = all_log_p[g]
                       /\ log[e.b].op = "log_p" /\ log[e.b].a = all_p[g]
                       /\ \A d \in EventsOf("combiner_dec") :
                             log[d].k = g - 1 => log[e.b].b = log[d].b
                  ELSE /\ e.op = "kl_closed"
                       /\ e.a = all_q[g] /\ e.b = all_p[g]

C8_Witness ==
    /\ mode = "forward" /\ pc = "done" /\ cfg.num_nf > 0 /\ Len(kl_all) = 3
    /\ \A g \in 1..3 : log[kl_all[g]].op = "kl_diff"

EncoderOps ==
    {"x", "preprocess", "stem", "pre_process", "enc_tower", "enc0", "combiner_enc",
     "enc_sampler", "nf_cell", "log_p", "isub", "kl_diff", "kl_closed"}

\* C9: a generation pass evaluates no stem, pre-process, encoder-tower,
\* encoder-combiner, enc_sampler or flow cell and builds no combiner cache;
\* every latent is drawn from the prior alone, the standard distribution for
\* the first group and dec_sampler[k-1] of the current decoder stream for
\* group k, each with the caller's temperature.
C9_PriorOnlyGeneration ==
    mode = "sample" =>
        /\ \A e \in 1..Len(log) : log[e].op \notin EncoderOps
        /\ combiner_cells_enc = <<>> /\ combiner_cells_s = <<>>
        /\ \A e \in EventsOf("sample") :
              LET d == log[e].a
                  k == log[e].k
              IN  /\ log[d].temp = t
                  /\ IF k = 0
                     THEN log[d].op = "NormalStd"
                     ELSE /\ log[d].op = "Normal" /\ log[d].b = 0
                          /\ log[log[d].a].op = "dec_sampler"
                          /\ log[log[d].a].mod = k - 1
                          /\ log[log[d].a].a = DecStreamBefore(e)
        /\ \A c \in EventsOf("combiner_dec") :
              /\ log[log[c].b].op = "sample" /\ log[log[c].b].k = log[c].k
              /\ log[c].a = DecStreamBefore(c)
        /\ PassEnded => Cardinality(EventsOf("sample")) = SumSeq(groups_per_scale)

C9_Witness ==
    /\ mode = "sample" /\ pc = "done" /\ t = 0
    /\ \E e \in EventsOf("sample") : log[e].k = 2 /\ log[log[e].a].temp = 0

\* the shift a single cell computes from z and the conditioning features
ShiftOf(cell, zz, f) == ELUConv_forward(cell.mu, ARInvertedResidual_forward(cell.conv, zz, f))

C7_FeaturesChangeOutput ==
    (ar.kind = "cell" /\ ar.done) =>
        \E sd \in 0..MaxSeed, row \in Rows, f1 \in Ftrs, f2 \in Ftrs :
            CellAR_forward(CellAR(1, sd), <<row>>, f1) # CellAR_forward(CellAR(1, sd), <<row>>, f2)

\* what the code does instead: the output of a cell call is the same under
\* every conditioning tensor
CellAR_IgnoresFeatures ==
    (ar.kind = "cell" /\ ar.done) =>
        \A f2 \in Ftrs : CellAR_forward(ar.cell, ar.z, f2) = ar.res

C12_CheckpointEquivalence ==
    /\ (ar.kind = "res" /\ ar.done) => ar.res = Sequential(ar.m.layers, ar.z)
    /\ (ar.kind = "elu" /\ ar.done) =>
          ar.res = ELUConv_forward([ar.m EXCEPT !.checkpoint_res = FALSE], ar.x)

\* what the code does instead: under the flag every layer of the block is
\* given z itself, and the depthwise layer rejects it
Checkpoint_Raises ==
    (ar.kind = "res" /\ ar.done) =>
        ar.res = (IF ar.m.checkpoint_res THEN RuntimeError ELSE Sequential(ar.m.layers, ar.z))

\* C13: the first call of spectral_norm_parallel that meets a shape draws its
\* pair of singular vectors and runs 10 x num_power_iter = 40 power iterations
\* on it; every later call runs num_power_iter = 4 iterations on the pair the
\* previous call left, never drawing it again; no cached shape is dropped, and
\* after a call the cached shapes are the shapes of the registered layers.
C13_SpectralNormCache ==
    LET shapes == ShapesOf(all_conv_layers)
    IN  /\ DOMAIN sr_u = DOMAIN sr_v
        /\ DOMAIN sr_u = (IF sn_calls = 0 THEN {} ELSE shapes)
        /\ sn_calls > 0 =>
              /\ DOMAIN num_iter = shapes
              /\ \A sh \in shapes :
                    /\ sr_u[sh].init = 1 /\ sr_v[sh].init = 1
                    /\ num_iter[sh] = (IF sn_calls = 1 THEN 40 ELSE 4)
                    /\ sr_u[sh].iters = 40 + 4 * (sn_calls - 1)
                    /\ sr_v[sh].iters = sr_u[sh].iters

C13_Witness ==
    /\ sn_calls = MaxCalls /\ pc = "done" /\ mode = "forward"
    /\ Cardinality(DOMAIN sr_u) >= 4
    /\ Cardinality(DOMAIN sr_u) < Len(all_conv_layers)
    /\ \A sh \in DOMAIN sr_u : num_iter[sh] = 4 /\ sr_u[sh].iters = 40 + 4 * (MaxCalls - 1)

\* C14: when weight-decay-norm annealing is requested and weight_decay_norm_init
\* or weight_decay_norm is not strictly positive, forward fails at the loss
\* computation and returns no output, loss or metrics; when annealing is not
\* requested nothing is checked and the coefficient is weight_decay_norm itself.
C14_WdnAnneal ==
    (mode = "forward" /\ PassEnded) =>
        LET a == out.args
        IN  /\ (a.weight_decay_norm_anneal
                /\ (a.weight_decay_norm_init <= 0 \/ a.weight_decay_norm <= 0))
                  => /\ pc = "AssertionError" /\ out.kind = "none"
                     /\ EventsOf("loss") = {}
            /\ ~a.weight_decay_norm_anneal
                  => /\ pc = "done" /\ out.kind = "forward"
                     /\ out.metrics.wdn_coeff = a.weight_decay_norm
            /\ pc = "AssertionError" => a.weight_decay_norm_anneal

C14_Witness ==
    /\ mode = "forward" /\ pc = "AssertionError" /\ out.kind = "none"
    /\ out.args.weight_decay_norm_anneal
    /\ out.args.weight_decay_norm_init > 0 /\ out.args.weight_decay_norm = 0
    /\ EventsOf("decoder_output") # {} /\ sn_calls > 0

\* the block of channel n (0-based) on a side of `own` channels facing a side
\* of `other` channels: blocks of max/min consecutive channels on the larger side
BlockOf(n, own, other) == IF own > other THEN n \div (own \div other) ELSE n

\* C15: for channel counts one of which divides the other, channel_mask(c_in,
\* 1, c_out, zero_diag) has entry [o][i] = 1 exactly when block(i) <= block(o)
\* (block(i) < block(o) with zero_diag set) and 0 otherwise, the blocks being
\* runs of max/min consecutive channels of the larger side; the call fails
\* when neither count divides the other or g_in is neither 1 nor c_in.
C15_ChannelMask ==
    (ar.kind = "mask" /\ ar.done) =>
        LET divides == ar.c_in % ar.c_out = 0 \/ ar.c_out % ar.c_in = 0
            grouped == ar.g_in = 1 \/ ar.g_in = ar.c_in
        IN  /\ ar.res.raised <=> (~divides \/ ~grouped)
            /\ (divides /\ ar.g_in = 1) =>
                  /\ Len(ar.res.mask) = ar.c_out
                  /\ \A o \in 0..(ar.c_out - 1) :
                        /\ Len(ar.res.mask[o + 1]) = ar.c_in
                        /\ \A c \in 0..(ar.c_in - 1) :
                              LET bo == BlockOf(o, ar.c_out, ar.c_in)
                                  bi == BlockOf(c, ar.c_in, ar.c_out)
                              IN  ar.res.mask[o + 1][c + 1] =
                                    (IF (IF ar.zero_diag THEN bi < bo ELSE bi <= bo)
                                     THEN 1 ELSE 0)

C15_Witness ==
    /\ ar.kind = "mask" /\ ar.done /\ ~ar.res.raised
    /\ ar.g_in = 1 /\ ar.c_in = 2 /\ ar.c_out = MaxChannels /\ ar.zero_diag
    /\ ar.res.mask[MaxChannels] = <<1, 0>>
    /\ ar.res.mask[1] = <<0, 0>>

Down(cell, kinds) == IF cell.cell_type \in kinds THEN 1 ELSE 0

\* the number of down-samplings behind the stream that event e produced
RECURSIVE ScaleOf(_)
ScaleOf(e) ==
    LET ev == log[e]
    IN  CASE ev.op = "pre_process" ->
                ScaleOf(ev.a) + Down(pre_process[ev.mod + 1], {"down_pre"})
          [] ev.op = "enc_tower" ->
                ScaleOf(ev.a) + Down(enc_tower[ev.mod + 1], {"down_enc"})
          [] ev.op = "dec_tower" ->
                ScaleOf(ev.a) - Down(dec_tower[ev.mod + 1], {"up_dec"})
          [] ev.op = "combiner_dec" -> ScaleOf(ev.a)
          [] ev.op = "prior_ftr0" -> prior_ftr0_scale(cfg)
          [] OTHER -> 0

\* C16: at every combiner_dec position k >= 1 of a forward pass the cached
\* encoder feature consumed there was recorded after as many down-samplings
\* as the decoder stream has at that position, the combiner cell, the
\* decoder's cell and the samplers of group k carry that scale's channel
\* multiplier, and so the towers mirror each other in scale.
C16_TowerMirror ==
    mode = "forward" =>
        \A f \in EventsOf("combiner_enc") :
            LET k    == log[f].k
                sc   == ScaleOf(log[f].a)
                cell == enc_tower[log[f].mod + 1]
            IN  /\ k >= 1
                /\ ScaleOf(log[f].b) = sc
                /\ cell.mult = Pow(CHANNEL_MULT, sc)
                /\ \A e \in EventsOf("enc_sampler") :
                      log[e].a = f => enc_sampler[log[e].mod + 1].mult = cell.mult
                /\ \A e \in EventsOf("dec_sampler") :
                      log[e].k = k => dec_sampler[log[e].mod + 1].mult = cell.mult
                /\ \A d \in EventsOf("combiner_dec") :
                      log[d].k = k =>
                         /\ dec_tower[log[d].mod + 1].mult = cell.mult
                         /\ ScaleOf(d) = sc

C16_Witness ==
    /\ mode = "forward" /\ pc = "done" /\ cfg.num_preprocess_blocks > 0
    /\ \E f, g \in EventsOf("combiner_enc") :
          /\ f < g /\ ScaleOf(log[f].a) = ScaleOf(log[g].a) + 1
          /\ ScaleOf(log[f].b) = ScaleOf(log[f].a)
          /\ ScaleOf(log[g].b) = ScaleOf(log[g].a)
          /\ \E e \in EventsOf("enc_sampler") : log[e].a = g

\* the positions (0-based) of the cells of a kind in a tower
CellsOf(tower, kind) == {c \in 0..(Len(tower) - 1) : tower[c + 1].cell_type = kind}

\* the events of an operation that used entry j of its list
UsesOf(op, j) == {e \in EventsOf(op) : log[e].mod = j}

\* C17: with G > 1 latent groups and F flows per group the constructor builds
\* G-1 combiner_enc cells, G combiner_dec cells, G enc_sampler entries, G-1
\* dec_sampler entries and G*F flow cells; a forward pass never indexes
\* outside these lists, uses each of these modules exactly once, and leaves
\* the decoder traversal with idx_dec = G and nf_offset = G*F.
C17_CountsAndBounds ==
    LET G == SumSeq(groups_per_scale)
        F == cfg.num_nf
    IN  G > 1 =>
          /\ Cardinality(CellsOf(enc_tower, "combiner_enc")) = G - 1
          /\ Cardinality(CellsOf(dec_tower, "combiner_dec")) = G
          /\ Len(enc_sampler) = G /\ Len(dec_sampler) = G - 1
          /\ Len(nf_cells) = G * F
          /\ pc # "IndexError"
          /\ mode = "forward" =>
                /\ \A e \in EventsOf("enc_sampler") : log[e].mod \in 0..(G - 1)
                /\ \A e \in EventsOf("dec_sampler") : log[e].mod \in 0..(G - 2)
                /\ \A e \in EventsOf("nf_cell") : log[e].mod \in 0..(G * F - 1)
                /\ \A e \in EventsOf("combiner_enc") :
                      log[e].mod \in CellsOf(enc_tower, "combiner_enc")
                /\ idx_dec <= G /\ nf_offset <= G * F
                /\ Len(combiner_cells_enc) <= G - 1
                /\ Len(combiner_cells_s) = Len(combiner_cells_enc)
          /\ (mode = "forward" /\ (PassEnded \/ (pc = "dec_tower" /\ i > Len(dec_tower)))) =>
                /\ idx_dec = G /\ nf_offset = G * F
                /\ \A j \in 0..(G - 1) : Cardinality(UsesOf("enc_sampler", j)) = 1
                /\ \A j \in 0..(G - 2) : Cardinality(UsesOf("dec_sampler", j)) = 1
                /\ \A j \in 0..(G * F - 1) : Cardinality(UsesOf("nf_cell", j)) = 1
                /\ \A j \in CellsOf(enc_tower, "combiner_enc") :
                      Cardinality(UsesOf("combiner_enc", j)) = 1
                /\ \A j \in CellsOf(dec_tower, "combiner_dec") :
                      Cardinality(UsesOf("combiner_dec", j)) = 1

C17_Witness ==
    /\ mode = "forward" /\ pc = "dec_tower" /\ i > Len(dec_tower)
    /\ SumSeq(groups_per_scale) = 4 /\ cfg.num_nf = MaxFlows
    /\ idx_dec = 4 /\ nf_offset = 4 * MaxFlows
    /\ Cardinality(EventsOf("nf_cell")) = 4 * MaxFlows
    /\ Cardinality(EventsOf("combiner_enc")) = 3

\* the sampled (post-flow) latents: the values handed to combiner_dec
LatentOps == {"sample", "nf_cell"}

DecoderOps ==
    {"prior_ftr0", "dec_tower", "combiner_dec", "dec_sampler", "stem_decoder",
     "post_process", "image_conditional", "decoder_output"}

\* the events the value of event e is computed from, a latent taken as given
RECURSIVE Cone(_)
Cone(e) ==
    IF e = 0 THEN {}
    ELSE {e} \cup (IF log[e].op \in LatentOps THEN {}
                   ELSE Cone(log[e].a) \cup Cone(log[e].b))

\* the latest decoder-side event of the log (0 if none)
LastDecoderEvent ==
    LET D == {e \in 1..Len(log) : log[e].op \in DecoderOps}
    IN  IF D = {} THEN 0 ELSE MaxOf(D)

\* C18: in a forward pass the decoder stream starts from the constant
\* prior_ftr0 and is changed only by decoder cells and by combiner_dec(s, z):
\* the stream, the prior parameters of every group and the output logits are
\* computed from prior_ftr0 and the sampled latents alone, through decoder
\* modules only, so runs with equal latents agree on them whatever x was.
C18_DecoderIndependentOfInput ==
    mode = "forward" =>
        LET cone == Cone(LastDecoderEvent)
        IN  /\ \A f \in cone :
                  /\ log[f].op \in DecoderOps \cup LatentOps
                  /\ log[f].op \in LatentOps =>
                        \E d \in cone :
                           \/ log[d].op = "combiner_dec" /\ log[d].b = f
                           \/ log[d].op = "stem_decoder" /\ log[d].a = f
            /\ \A e \in 1..Len(log) :
                  (log[e].op \in DecoderOps /\ log[e].op # "dec_sampler") =>
                     e \in cone \/ (log[e].op = "prior_ftr0" /\ vanilla_vae(cfg))
            /\ \A e \in EventsOf("dec_sampler") :
                  log[e].a \in cone /\ log[log[e].a].op \in DecoderOps /\ log[e].b = 0
            /\ \A d \in EventsOf("combiner_dec") :
                  log[d].k = 0 => log[log[d].a].op = "prior_ftr0"
            /\ \A g \in 2..Len(all_p) :
                  /\ log[log[all_p[g]].a].op = "dec_sampler"
                  /\ log[all_p[g]].b = 0
            /\ pc \in {"dec_tower", "done", "AssertionError"} =>
                  s \in cone /\ log[s].op \notin LatentOps
            /\ pc = "done" => out.output \in cone

C18_Witness ==
    /\ mode = "forward" /\ pc = "done" /\ log[1].op = "x" /\ log[1].mod = 2
    /\ Cardinality({f \in Cone(out.output) : log[f].op \in LatentOps}) = 3
    /\ \E f \in Cone(out.output) : log[f].op = "nf_cell"
    /\ 1 \notin Cone(out.output) /\ 1 \in Cone(out.loss)

====
